---- MODULE Spec2Model ----
(***************************************************************************)
(* DynamicDifficultyScaler (src/DynamicDifficultyScaler.py) as a state     *)
(* machine.  One scaler object is driven by its public methods; a second   *)
(* object is constructed and loaded from the files the first one saves.    *)
(*                                                                         *)
(* Numbers.  Every Python float of the program is a finite number here,    *)
(* held exactly as a rational <<n, d>> with d > 0 in lowest terms, so that *)
(* equal numbers are equal values.  NaN, the infinities and magnitudes     *)
(* beyond the exact range of a double are outside the model.               *)
(***************************************************************************)
EXTENDS Integers, Sequences, FiniteSets, TLC

----------------------------------------------------------------------------
(* Arithmetic of the program's floats                                      *)

Abs(n) == IF n < 0 THEN -n ELSE n

RECURSIVE GCD(_, _)
GCD(a, b) == IF b = 0 THEN a ELSE GCD(b, a % b)

\* The number n/d (d # 0) in lowest terms with a positive denominator.
Frac(n, d) ==
    LET s == IF d < 0 THEN -1 ELSE 1
        g == GCD(Abs(n), Abs(d))
    IN  <<(s * n) \div g, (s * d) \div g>>

R(n) == <<n, 1>>

RAdd(a, b) == Frac(a[1] * b[2] + b[1] * a[2], a[2] * b[2])
RSub(a, b) == Frac(a[1] * b[2] - b[1] * a[2], a[2] * b[2])
RMul(a, b) == Frac(a[1] * b[1], a[2] * b[2])
\* a / b; the callers guard b # 0 where Python would raise ZeroDivisionError.
RDiv(a, b) == Frac(a[1] * b[2], a[2] * b[1])
RLt(a, b)  == a[1] * b[2] < b[1] * a[2]
RLe(a, b)  == a[1] * b[2] <= b[1] * a[2]

\* Python's max(a, b) and min(a, b): the first argument unless the second is
\* strictly larger (smaller).
RMax(a, b) == IF RLt(a, b) THEN b ELSE a
RMin(a, b) == IF RLt(b, a) THEN b ELSE a
RMax3(a, b, c) == RMax(RMax(a, b), c)

\* x ** k for an integer k >= 0.
RECURSIVE RPow(_, _)
RPow(x, k) == IF k = 0 THEN R(1) ELSE RMul(x, RPow(x, k - 1))

IsInt(x) == x[2] = 1
Floor(x) == x[1] \div x[2]

\* Python 3's round(x): to the nearest integer, a tie to the even one.
PyRound(x) ==
    LET f == Floor(x)
        twice == 2 * (x[1] - f * x[2])     \* 2 * (x - f) * x[2], in 0 .. 2*x[2] - 1
    IN  IF twice < x[2] THEN f
        ELSE IF twice > x[2] THEN f + 1
        ELSE IF f % 2 = 0 THEN f ELSE f + 1

\* round(x, digits) for digits in {2, 3}: scale is 10 ** digits.
PyRoundTo(x, scale) == Frac(PyRound(RMul(x, R(scale))), scale)

\* The literal 1e-9 is 1 / EpsDen.
EpsDen == 1000000000
Eps == <<1, EpsDen>>

\* max(1e-9, x), compared without forming x[1] * EpsDen.
MaxEps(x) == IF x[1] <= (x[2] - 1) \div EpsDen THEN Eps ELSE x

----------------------------------------------------------------------------
(* The object                                                              *)

\* The attribute visible_elapsed exists only once set_visible_time has run.
NoAttr == <<>>

\* __init__
NewScaler(target_points, initial_milestone_value, visible_total_time, target_win_time, adjustment_rate, min_milestone_value, max_milestone_value) ==
    [ target_points            |-> target_points,
      initial_milestone_value  |-> initial_milestone_value,
      visible_total_time       |-> visible_total_time,
      target_win_time          |-> target_win_time,
      adjustment_rate          |-> adjustment_rate,
      min_milestone_value      |-> min_milestone_value,
      max_milestone_value      |-> max_milestone_value,
      earned_points            |-> R(0),
      milestone_value          |-> initial_milestone_value,
      visible_time_remaining   |-> visible_total_time,
      normal_time_reward       |-> R(1),
      low_time_reward          |-> R(20),
      high_time_threshold      |-> R(50),
      low_time_threshold       |-> R(30),
      high_time_cap            |-> R(5),
      start_visible_total_time |-> visible_total_time,
      awarded_time_ledger      |-> R(0),
      visible_elapsed          |-> NoAttr ]

\* The 17 keys save_state writes and load_state reads.
PersistedKeys ==
    { "target_points", "initial_milestone_value", "milestone_value",
      "earned_points", "visible_total_time", "visible_time_remaining",
      "target_win_time", "normal_time_reward", "low_time_reward",
      "high_time_threshold", "low_time_threshold", "high_time_cap",
      "start_visible_total_time", "awarded_time_ledger", "adjustment_rate",
      "min_milestone_value", "max_milestone_value" }

----------------------------------------------------------------------------
(* Engine integration setters                                              *)

set_progress(self, points) == [self EXCEPT !.earned_points = points]

set_visible_time_remaining(self, visible_time_remaining) ==
    [self EXCEPT !.visible_time_remaining = RMax(R(0), visible_time_remaining)]

set_visible_total_time(self, visible_total_time) ==
    [self EXCEPT !.visible_total_time = RMax(R(0), visible_total_time)]

\* Lines 88-94, had vtr been left out of the max.
effective_total_without_remaining(self) ==
    RMax(RAdd(self.start_visible_total_time, self.awarded_time_ledger),
         self.visible_total_time)

\* max(baseline + ledger, vtt, vtr)
_effective_total(self) ==
    RMax3(RAdd(self.start_visible_total_time, self.awarded_time_ledger),
          self.visible_total_time,
          self.visible_time_remaining)

set_visible_time(self, remaining, total) ==
    LET s1 == set_visible_total_time(self, total)
        s2 == set_visible_time_remaining(s1, remaining)
        eff_total == _effective_total(s2)
    IN  [s2 EXCEPT !.visible_elapsed = RMax(R(0), RSub(eff_total, remaining))]

add_visible_time(self, delta_minutes, record_to_ledger) ==
    LET dm  == delta_minutes
        vtr == RMax(R(0), RAdd(self.visible_time_remaining, dm))
    IN  [self EXCEPT
            !.visible_time_remaining = vtr,
            !.visible_total_time = RMax(self.visible_total_time, vtr),
            !.awarded_time_ledger =
                IF record_to_ledger THEN RAdd(self.awarded_time_ledger, dm)
                ELSE self.awarded_time_ledger]

----------------------------------------------------------------------------
(* Time reward calculation                                                 *)

\* Lines 117-124, had the late-game cap been taken above the high threshold too.
TimeRewardCapHighIsLate(self, vtr) ==
    IF RLe(vtr, self.low_time_threshold) \/ RLe(self.high_time_threshold, vtr)
    THEN self.low_time_reward
    ELSE self.high_time_cap

\* Lines 117-124: the cap from the absolute minutes remaining.
TimeRewardCap(self, vtr) ==
    LET max_late == self.low_time_reward
        span     == MaxEps(RSub(self.high_time_threshold, self.low_time_threshold))
        frac     == RDiv(RSub(self.high_time_threshold, vtr), span)
    IN  IF RLe(self.high_time_threshold, vtr) THEN self.high_time_cap
        ELSE IF RLe(vtr, self.low_time_threshold) THEN max_late
        ELSE RAdd(self.high_time_cap,
                  RMul(RSub(max_late, self.high_time_cap), frac))

\* Line 126, had the curve been base + (max_late - base) * t.
TimeRewardCurveLinear(self, t) ==
    RAdd(self.normal_time_reward,
         RMul(RSub(self.low_time_reward, self.normal_time_reward), t))

\* Line 126: base + (max_late - base) * (1 - t) ** 2.
TimeRewardCurve(self, t) ==
    RAdd(self.normal_time_reward,
         RMul(RSub(self.low_time_reward, self.normal_time_reward),
              RPow(RSub(R(1), t), 2)))

calculate_time_reward(self) ==
    LET vtr       == RMax(R(0), self.visible_time_remaining)
        eff_total == MaxEps(_effective_total(self))
        t         == RMax(R(0), RMin(RDiv(vtr, eff_total), R(1)))
        base      == self.normal_time_reward
        max_late  == self.low_time_reward
        cap       == TimeRewardCap(self, vtr)
        reward    == TimeRewardCurve(self, t)
    IN  IF RLt(vtr, R(20)) THEN max_late
        ELSE RMax(base, RMin(reward, cap))

----------------------------------------------------------------------------
(* Milestone/flag logic                                                    *)

\* Lines 142-144, had line 142 assigned instead of added.
complete_milestone_assigns(self) ==
    LET s1 == [self EXCEPT !.earned_points = self.milestone_value]
    IN  [obj |-> s1, ret |-> calculate_time_reward(s1)]

\* Lines 142-144, had the bonus been applied to the clock and the ledger.
complete_milestone_applies_bonus(self) ==
    LET s1 == [self EXCEPT !.earned_points = RAdd(self.earned_points, self.milestone_value)]
        time_bonus == calculate_time_reward(s1)
    IN  [obj |-> add_visible_time(s1, time_bonus, TRUE), ret |-> time_bonus]

\* self.earned_points += self.milestone_value; the bonus is returned, not applied.
complete_milestone(self) ==
    LET s1 == [self EXCEPT !.earned_points = RAdd(self.earned_points, self.milestone_value)]
        time_bonus == calculate_time_reward(s1)
    IN  [obj |-> s1, ret |-> time_bonus]

\* Lines 154-156 (and 197-199): max(0.0, eff_total - vtr).
visible_elapsed_of(self) ==
    RMax(R(0), RSub(_effective_total(self), self.visible_time_remaining))

\* Lines 163-165 (and 203-205).  target_win_time # 0 is the caller's guard.
pace_ratio_of(self) ==
    LET elapsed_for_target == RMin(visible_elapsed_of(self), self.target_win_time)
        expected_points == RMul(RDiv(elapsed_for_target, self.target_win_time),
                                self.target_points)
    IN  IF RLt(R(0), expected_points)
        THEN RDiv(self.earned_points, expected_points)
        ELSE R(1)

\* Lines 182-183: max(min_milestone_value, min(x, max_milestone_value)).
ClampMilestone(self, x) ==
    RMax(self.min_milestone_value, RMin(x, self.max_milestone_value))

\* Lines 182-184, had the clamp been left out.
StoreMilestoneUnclamped(self, x) == R(PyRound(x))

\* Lines 182-184: clamp, then int(round(...)).

StoreMilestone(self, x) == R(PyRound(ClampMilestone(self, x)))

\* The divisions of lines 164 and 168 raise ZeroDivisionError on a zero divisor,
\* before anything is assigned.
update_raises(self) ==
    \/ self.target_win_time = R(0)
    \/ _effective_total(self) = R(0)

(***************************************************************************)
(* The values update_milestone_value may store.  Behind pace and on pace   *)
(* the value is computed exactly.  Ahead of pace the factor is             *)
(* (1 / pace_ratio) ** reduction_strength, a real power this arithmetic    *)
(* does not have.  With b = 1 / pace_ratio in (0, 1) and the exponent      *)
(* e = k + f >= 0, k its integer part and 0 <= f < 1, Bernoulli's          *)
(* inequality x ** f <= 1 + f * (x - 1), at x = b and at x = pace_ratio,   *)
(* encloses the factor:                                                    *)
(*   b ** k / (1 + f * (pace_ratio - 1)) <= b ** e                         *)
(*                                       <= b ** k * (1 - f * (1 - b))     *)
(* (both sides are b ** k at f = 0), and every integer that clamping and   *)
(* rounding can make of a product in that interval is a possible result.   *)
(* adjustment_rate >= 0 is the configuration's.                            *)
(***************************************************************************)
update_milestone_values(self) ==
    LET vtr        == self.visible_time_remaining
        eff_total  == _effective_total(self)
        pace_ratio == pace_ratio_of(self)
        t          == RMax(R(0), RMin(RDiv(vtr, eff_total), R(1)))
        one_t2     == RAdd(R(1), RPow(t, 2))
        reduction_strength == RMul(self.adjustment_rate, one_t2)
        increase_strength  == RDiv(self.adjustment_rate, one_t2)
        mv         == self.milestone_value
    IN  IF RLt(R(1), pace_ratio) THEN
            LET b  == RDiv(R(1), pace_ratio)
                k  == Floor(reduction_strength)
                f  == RSub(reduction_strength, R(k))
                bk == RPow(b, k)
                hi == RMul(bk, RSub(R(1), RMul(f, RSub(R(1), b))))
                lo == RDiv(bk, RAdd(R(1), RMul(f, RSub(pace_ratio, R(1)))))
                p1 == RMul(mv, lo)
                p2 == RMul(mv, hi)
                from == StoreMilestone(self, RMin(p1, p2))[1]
                to   == StoreMilestone(self, RMax(p1, p2))[1]
            IN  { R(m) : m \in from .. to }
        ELSE IF RLt(pace_ratio, R(1)) THEN
            { StoreMilestone(self,
                  RMul(mv, RAdd(R(1), RMul(increase_strength,
                                           RSub(R(1), pace_ratio))))) }
        ELSE { StoreMilestone(self, mv) }

----------------------------------------------------------------------------
(* State I/O                                                               *)

get_progress(self) == self.earned_points

\* int(x): truncation toward zero.
PyInt(x) == IF x[1] >= 0 THEN x[1] \div x[2] ELSE -((-x[1]) \div x[2])

get_game_state(self) ==
    LET eff_total == _effective_total(self)
        reward    == calculate_time_reward(self)
    IN  ("Pts Won" :> PyRoundTo(self.earned_points, 100)) @@
        ("Pts Rem" :> RMax(R(0), PyRoundTo(RSub(self.target_points,
                                                self.earned_points), 100))) @@
        ("Reward" :> PyRoundTo(reward, 100)) @@
        ("Flag Val" :> PyInt(self.milestone_value)) @@
        ("Clock" :> PyRoundTo(self.visible_time_remaining, 100)) @@
        ("TT" :> PyRoundTo(self.visible_total_time, 100)) @@
        ("ET" :> PyRoundTo(eff_total, 100)) @@
        ("Time Elapsed" :> PyRoundTo(visible_elapsed_of(self), 100)) @@
        ("TWT" :> PyRoundTo(self.target_win_time, 100)) @@
        ("PR" :> PyRoundTo(pace_ratio_of(self), 1000))

\* A path of the file system: whether a file is there, and the JSON object in it.
NoFile == [exists |-> FALSE, data |-> <<>>]
File(data) == [exists |-> TRUE, data |-> data]

\* Lines 221-239, had the key awarded_time_ledger been left out.
save_state_drops_ledger(self) ==
    [k \in PersistedKeys \ {"awarded_time_ledger"} |-> self[k]]

\* The JSON object save_state writes: one number under each of the 17 keys.
\* json.dump writes a float by repr and an int by its digits; json.load and
\* float() read both back as the same number.

save_state(self) == [k \in PersistedKeys |-> self[k]]

\* Lines 244-270, had a missing file reset the dynamic state to its defaults.
load_state_missing_resets(self, file) ==
    IF ~file.exists
    THEN [obj |-> [self EXCEPT !.earned_points = R(0),
                               !.milestone_value = self.initial_milestone_value,
                               !.awarded_time_ledger = R(0)],
          ret |-> FALSE]
    ELSE [obj |-> [k \in DOMAIN self |->
                      IF k \in PersistedKeys /\ k \in DOMAIN file.data
                      THEN file.data[k] ELSE self[k]],
          ret |-> TRUE]

\* float(state.get(key, self.<key>)) for each of the 17 keys; a missing file
\* returns False before anything is read.
load_state(self, file) ==
    IF ~file.exists
    THEN [obj |-> self, ret |-> FALSE]
    ELSE [obj |-> [k \in DOMAIN self |->
                      IF k \in PersistedKeys /\ k \in DOMAIN file.data
                      THEN file.data[k] ELSE self[k]],
          ret |-> TRUE]

----------------------------------------------------------------------------
(* The state machine                                                       *)

VARIABLES
    scaler,     \* the scaler the engine drives: a record of its attributes
    fresh,      \* a second scaler, constructed to load a snapshot into: <<>> or <<object>>
    fs,         \* the file system: path -> the JSON object stored there, or NoFile
    last        \* the last call: method, path argument (file methods), return
                \* value, and the exception it raised ("" when it returned)

\* The method and the exception come before the whole call: two calls are
\* the same call only if those agree, and only then are their return values,
\* which are of one kind per method, compared.
vars == <<scaler, fresh, fs, last.op, last.raised, last>>

None == "None"
ZeroDivisionError == "ZeroDivisionError"

Call(op, arg, ret) == [op |-> op, arg |-> arg, ret |-> ret, raised |-> ""]
Raise(op, arg, exc) == [op |-> op, arg |-> arg, ret |-> None, raised |-> exc]

Args(a) == NewScaler(a[1], a[2], a[3], a[4], a[5], a[6], a[7])

\* Construction with one of the argument tuples; the files already on disk.
InitWith(ArgSet, FileStates) ==
    /\ scaler \in { Args(a) : a \in ArgSet }
    /\ fresh = <<>>
    /\ fs \in FileStates
    /\ last = Call("__init__", None, None)

SetProgress(Points) ==
    \E points \in Points :
        /\ scaler' = set_progress(scaler, points)
        /\ last' = Call("set_progress", None, None)
        /\ UNCHANGED <<fresh, fs>>

SetVisibleTimeRemaining(Minutes) ==
    \E m \in Minutes :
        /\ scaler' = set_visible_time_remaining(scaler, m)
        /\ last' = Call("set_visible_time_remaining", None, None)
        /\ UNCHANGED <<fresh, fs>>

SetVisibleTotalTime(Minutes) ==
    \E m \in Minutes :
        /\ scaler' = set_visible_total_time(scaler, m)
        /\ last' = Call("set_visible_total_time", None, None)
        /\ UNCHANGED <<fresh, fs>>

SetVisibleTime(Pairs) ==
    \E p \in Pairs :
        /\ scaler' = set_visible_time(scaler, p[1], p[2])
        /\ last' = Call("set_visible_time", None, None)
        /\ UNCHANGED <<fresh, fs>>

\* Not called once the clock would pass MaxMinutes or the ledger would leave
\* -MaxLedger .. MaxLedger.
AddVisibleTime(Deltas, MaxMinutes, MaxLedger) ==
    \E dm \in Deltas, record_to_ledger \in BOOLEAN :
        LET s1 == add_visible_time(scaler, dm, record_to_ledger)
        IN  /\ RLe(s1.visible_time_remaining, R(MaxMinutes))
            /\ RLe(R(-MaxLedger), s1.awarded_time_ledger)
            /\ RLe(s1.awarded_time_ledger, R(MaxLedger))
            /\ scaler' = s1
            /\ last' = Call("add_visible_time", None, None)
            /\ UNCHANGED <<fresh, fs>>

CalculateTimeReward ==
    /\ last' = Call("calculate_time_reward", None, calculate_time_reward(scaler))
    /\ UNCHANGED <<scaler, fresh, fs>>

\* Not called once |earned_points| would pass MaxPoints.
CompleteMilestone(MaxPoints) ==
    LET r == complete_milestone(scaler)
    IN  /\ RLe(r.obj.earned_points, R(MaxPoints))
        /\ RLe(R(-MaxPoints), r.obj.earned_points)
        /\ scaler' = r.obj
        /\ last' = Call("complete_milestone", None, r.ret)
        /\ UNCHANGED <<fresh, fs>>

UpdateMilestoneValue ==
    IF update_raises(scaler)
    THEN /\ last' = Raise("update_milestone_value", None, ZeroDivisionError)
         /\ UNCHANGED <<scaler, fresh, fs>>
    ELSE \E m \in update_milestone_values(scaler) :
            /\ scaler' = [scaler EXCEPT !.milestone_value = m]
            /\ last' = Call("update_milestone_value", None, m)
            /\ UNCHANGED <<fresh, fs>>

GetProgress ==
    /\ last' = Call("get_progress", None, get_progress(scaler))
    /\ UNCHANGED <<scaler, fresh, fs>>

GetGameState ==
    /\ last' = IF scaler.target_win_time = R(0)
               THEN Raise("get_game_state", None, ZeroDivisionError)
               ELSE Call("get_game_state", None, get_game_state(scaler))
    /\ UNCHANGED <<scaler, fresh, fs>>

SaveState(Paths) ==
    \E filepath \in Paths :
        /\ fs' = [fs EXCEPT ![filepath] = File(save_state(scaler))]
        /\ last' = Call("save_state", filepath, None)
        /\ UNCHANGED <<scaler, fresh>>

LoadState(Paths) ==
    \E filepath \in Paths :
        LET r == load_state(scaler, fs[filepath])
        IN  /\ scaler' = r.obj
            /\ last' = Call("load_state", filepath, r.ret)
            /\ UNCHANGED <<fresh, fs>>

\* A second instance is constructed ...
FreshConstruct(ArgSet) ==
    \E a \in ArgSet :
        /\ fresh' = <<Args(a)>>
        /\ last' = Call("fresh.__init__", None, None)
        /\ UNCHANGED <<scaler, fs>>

\* ... and loads a snapshot.
FreshLoadState(Paths) ==
    \E filepath \in Paths :
        /\ Len(fresh) = 1
        /\ LET r == load_state(fresh[1], fs[filepath])
           IN  /\ fresh' = <<r.obj>>
               /\ last' = Call("fresh.load_state", filepath, r.ret)
        /\ UNCHANGED <<scaler, fs>>

----------------------------------------------------------------------------
(* Inputs and specifications                                               *)

\* The constructor's defaults (lines 21-27).
DefaultArgs == <<R(100), R(10), R(100), R(400), <<1, 4>>, R(1), R(20)>>
WithTotal(vtt) == [DefaultArgs EXCEPT ![3] = vtt]
WithMilestone(imv, minv, maxv) ==
    [DefaultArgs EXCEPT ![2] = imv, ![6] = minv, ![7] = maxv]

\* An older, partial snapshot left on disk by another build of the game.
OldSave == ("normal_time_reward" :> R(10)) @@ ("high_time_cap" :> R(8))

NoFiles(Paths) == { [p \in Paths |-> NoFile] }
OldFileAt(Paths, path) ==
    { [p \in Paths |-> IF p = path THEN File(OldSave) ELSE NoFile] }

(***************************************************************************)
(* SpecClock: the clock.  Construction with a positive, zero or negative   *)
(* total; the four clock methods with readings on both sides of every      *)
(* threshold of the reward curve; the reward calculator; load_state from   *)
(* a missing path and from the older snapshot.                             *)
(***************************************************************************)
ClockMaxMinutes == 100
ClockMaxLedger == 20

ClockPaths == {"game_state.json", "old_save.json"}

InitClock ==
    InitWith({ DefaultArgs, WithTotal(R(0)), WithTotal(R(-5)) },
             OldFileAt(ClockPaths, "old_save.json"))

NextClock ==
    \/ SetVisibleTimeRemaining({R(-10), R(15), R(25), R(40), R(50), R(100)})
    \/ SetVisibleTotalTime({R(-10), R(60)})
    \/ SetVisibleTime({<<R(40), R(100)>>})
    \/ AddVisibleTime({R(-20), R(20)}, ClockMaxMinutes, ClockMaxLedger)
    \/ CalculateTimeReward
    \/ LoadState(ClockPaths)

SpecClock == InitClock /\ [][NextClock]_vars

(***************************************************************************)
(* Spec: scoring and pacing.  Construction with milestone values inside,   *)
(* above, below and between the integers of [min, max], and with integral  *)
(* and fractional bounds; every method of the scaler.                      *)
(***************************************************************************)
MaxPoints == 10
MaxMinutes == 80
MaxLedger == 20

Paths == {"game_state.json"}

Init ==
    InitWith({ DefaultArgs,
               WithTotal(R(0)),
               WithTotal(R(-5)),
               WithMilestone(R(25), R(1), R(20)),
               WithMilestone(R(-2), R(-5), R(20)),
               WithMilestone(<<5, 2>>, <<6, 5>>, <<7, 2>>) },
             NoFiles(Paths))

Next ==
    \/ SetProgress({R(0), R(10)})
    \/ SetVisibleTimeRemaining({R(60)})
    \/ SetVisibleTotalTime({R(100)})
    \/ SetVisibleTime({<<R(60), R(100)>>})
    \/ AddVisibleTime({R(20)}, MaxMinutes, MaxLedger)
    \/ CalculateTimeReward
    \/ CompleteMilestone(MaxPoints)
    \/ UpdateMilestoneValue
    \/ GetProgress
    \/ GetGameState
    \/ LoadState(Paths)

Spec == Init /\ [][Next]_vars

(***************************************************************************)
(* SpecPersist: snapshots.  Every method of the scaler, save_state and     *)
(* load_state on a path that is written and on one that never is, and a    *)
(* second scaler constructed with other arguments that loads them.         *)
(***************************************************************************)
PersistMaxPoints == 10
PersistMaxMinutes == 60
PersistMaxLedger == 20

SavePaths == {"game_state.json"}
LoadPaths == {"game_state.json", "missing.json"}

FreshArgs == { DefaultArgs,
               <<R(50), R(5), R(30), R(200), <<1, 2>>, R(2), R(10)>> }

InitPersist == InitWith({ WithMilestone(R(10), R(1), R(11)) }, NoFiles(LoadPaths))

NextPersist ==
    \/ SetProgress({R(10)})
    \/ SetVisibleTimeRemaining({R(40)})
    \/ SetVisibleTotalTime({R(80)})
    \/ SetVisibleTime({<<R(40), R(80)>>})
    \/ AddVisibleTime({R(20)}, PersistMaxMinutes, PersistMaxLedger)
    \/ CalculateTimeReward
    \/ CompleteMilestone(PersistMaxPoints)
    \/ UpdateMilestoneValue
    \/ GetProgress
    \/ GetGameState
    \/ SaveState(SavePaths)
    \/ LoadState(LoadPaths)
    \/ FreshConstruct(FreshArgs)
    \/ FreshLoadState(LoadPaths)

SpecPersist == InitPersist /\ [][NextPersist]_vars

----------------------------------------------------------------------------
(* Properties of the clock (SpecClock)                                     *)

Elapsed(self) == RSub(_effective_total(self), self.visible_time_remaining)

\* C1: in every state the clock methods reach, with or without ledger
\* recording, after lowered totals and negative deltas, the derived elapsed
\* time _effective_total() - visible_time_remaining is >= 0.
C1_ElapsedNonNegative == RLe(R(0), Elapsed(scaler))

\* Minutes were revoked through the ledger, the total was lowered, and the
\* remaining reading stands above both the total and baseline + ledger.
C1_Witness ==
    /\ RLt(scaler.awarded_time_ledger, R(0))
    /\ RLt(scaler.visible_total_time, scaler.start_visible_total_time)
    /\ RLt(scaler.visible_total_time, scaler.visible_time_remaining)
    /\ RLt(RAdd(scaler.start_visible_total_time, scaler.awarded_time_ledger),
           scaler.visible_time_remaining)
    /\ Elapsed(scaler) = R(0)

\* The reward constants as __init__ sets them (lines 45-51).
HasConstructedRewardConstants(self) ==
    /\ self.normal_time_reward = R(1)
    /\ self.low_time_reward = R(20)
    /\ self.high_time_threshold = R(50)
    /\ self.low_time_threshold = R(30)
    /\ self.high_time_cap = R(5)

\* Remaining times on both sides of the override at 20 and of the thresholds
\* at 30 and 50, and the thresholds themselves.
RemainingGrid ==
    { R(-5), R(0), R(10), R(19), R(20), R(25), R(30), R(35), R(40), R(45),
      R(50), R(60), R(100), R(150) }

RewardAt(self, r) ==
    calculate_time_reward([self EXCEPT !.visible_time_remaining = r])

\* C5: with the constructed reward constants, of two states that differ in
\* visible_time_remaining alone, the one with less time remaining has a
\* reward at least as large: the state reached against the same state with
\* any remaining time of the grid in place of its own.
C5_RewardNonIncreasing ==
    HasConstructedRewardConstants(scaler) =>
        \A r \in RemainingGrid :
            LET here  == calculate_time_reward(scaler)
                there == RewardAt(scaler, r)
            IN  /\ RLe(r, scaler.visible_time_remaining) => RLe(here, there)
                /\ RLe(scaler.visible_time_remaining, r) => RLe(there, here)

\* The calculator has just run between the two thresholds, and its result
\* lies strictly between the rewards at 25 and at 60 minutes.
C5_Witness ==
    /\ last.op = "calculate_time_reward"
    /\ HasConstructedRewardConstants(scaler)
    /\ RLt(R(30), scaler.visible_time_remaining)
    /\ RLt(scaler.visible_time_remaining, R(50))
    /\ last.ret = calculate_time_reward(scaler)
    /\ RLt(last.ret, RewardAt(scaler, R(25)))
    /\ RLt(RewardAt(scaler, R(60)), last.ret)

PlentyOfTime(self) ==
    /\ RLe(self.high_time_threshold, self.visible_time_remaining)
    /\ RLe(R(20), self.visible_time_remaining)

----------------------------------------------------------------------------
(* Properties of scoring and pacing (Spec)                                 *)

Returned(op) == last.op = op /\ last.raised = ""

\* C2 as claimed: after update_milestone_value() has returned, the stored
\* milestone_value is an integer within [min_milestone_value,
\* max_milestone_value], and it is the value returned.
C2_UpdateWithinBounds ==
    Returned("update_milestone_value") =>
        /\ IsInt(scaler.milestone_value)
        /\ RLe(scaler.min_milestone_value, scaler.milestone_value)
        /\ RLe(scaler.milestone_value, scaler.max_milestone_value)
        /\ last.ret = scaler.milestone_value

\* C3 as claimed: visible_time_remaining >= 0 in every reachable state, from
\* construction on.
C3_RemainingNonNegative == RLe(R(0), scaler.visible_time_remaining)

\* C4 as claimed: every step of a method other than load_state leaves
\* earned_points at least as large as before, and >= 0.
C4_Original ==
    [][last'.op # "load_state" =>
          /\ RLe(scaler.earned_points, scaler'.earned_points)
          /\ RLe(R(0), scaler'.earned_points)]_vars

\* C4 as amended: every step of a method other than load_state and
\* set_progress, taken with milestone_value >= 0, leaves earned_points at
\* least as large as before, and >= 0 if it was >= 0.
C4_EarnedNonDecreasing ==
    [][(/\ last'.op \notin {"load_state", "set_progress"}
        /\ RLe(R(0), scaler.milestone_value)) =>
          /\ RLe(scaler.earned_points, scaler'.earned_points)
          /\ RLe(R(0), scaler.earned_points) => RLe(R(0), scaler'.earned_points)]_vars

\* A milestone was completed and earned_points has grown to a positive value.
C4_Witness ==
    /\ Returned("complete_milestone")
    /\ RLt(R(0), scaler.milestone_value)
    /\ RLt(scaler.milestone_value, scaler.earned_points)

\* C7: complete_milestone() adds the milestone_value it finds to
\* earned_points, returns what calculate_time_reward() returns in that state,
\* and changes no other attribute: not the clock, not the ledger, not
\* milestone_value, not the configuration.
C7_CompleteMilestoneEffect ==
    [][last'.op = "complete_milestone" =>
          /\ last'.raised = ""
          /\ scaler'.earned_points =
                 RAdd(scaler.earned_points, scaler.milestone_value)
          /\ last'.ret = calculate_time_reward(scaler)
          /\ \A k \in DOMAIN scaler \ {"earned_points"} :
                 scaler'[k] = scaler[k]
          /\ UNCHANGED <<fresh, fs>>]_vars

\* A milestone was completed on a running clock: points were earned and the
\* bonus returned lies strictly between the floor and the late-game reward.
C7_Witness ==
    /\ Returned("complete_milestone")
    /\ scaler.earned_points = scaler.milestone_value
    /\ RLt(R(0), scaler.earned_points)
    /\ last.ret = calculate_time_reward(scaler)
    /\ RLt(scaler.normal_time_reward, last.ret)
    /\ RLt(last.ret, scaler.low_time_reward)
    /\ scaler.awarded_time_ledger = R(0)

OnPace(self) == pace_ratio_of(self) = R(1)

----------------------------------------------------------------------------
(* Properties of the snapshots (SpecPersist)                               *)

\* C8: save_state(path) changes no attribute of the scaler that saves, and
\* load_state(path) called next on the second scaler, however it was
\* constructed, returns True and leaves each of the 17 persisted attributes
\* equal to the saving scaler's.
C8_RoundTrip ==
    [][/\ last'.op = "save_state" =>
              /\ last'.raised = ""
              /\ UNCHANGED <<scaler, fresh>>
       /\ (/\ last.op = "save_state"
           /\ last'.op = "fresh.load_state"
           /\ last'.arg = last.arg) =>
              /\ last'.raised = ""
              /\ last'.ret = TRUE
              /\ \A k \in PersistedKeys : fresh'[1][k] = scaler[k]]_vars

\* The second scaler has just loaded a snapshot of a scaler whose score,
\* milestone value, clock and ledger had all moved since construction, and
\* agrees with it on all 17 attributes.
C8_Witness ==
    /\ Returned("fresh.load_state")
    /\ last.ret = TRUE
    /\ \A k \in PersistedKeys : fresh[1][k] = scaler[k]
    /\ scaler.earned_points # R(0)
    /\ scaler.milestone_value # scaler.initial_milestone_value
    /\ scaler.awarded_time_ledger # R(0)
    /\ scaler.visible_time_remaining # scaler.start_visible_total_time
    /\ scaler.visible_total_time # scaler.start_visible_total_time

\* C9: load_state(path) on a path where no file exists returns False, raises
\* nothing, and leaves every attribute of the scaler as it was.
C9_LoadMissingFile ==
    [][(last'.op = "load_state" /\ ~fs[last'.arg].exists) =>
          /\ last'.raised = ""
          /\ last'.ret = FALSE
          /\ UNCHANGED <<scaler, fresh, fs>>]_vars

\* load_state has just returned False for a missing path, on a scaler whose
\* state had moved since construction while another snapshot was on disk.
C9_Witness ==
    /\ Returned("load_state")
    /\ last.ret = FALSE
    /\ ~fs[last.arg].exists
    /\ \E p \in DOMAIN fs : fs[p].exists
    /\ scaler.earned_points # R(0)
    /\ scaler.awarded_time_ledger # R(0)

====
